---- MODULE Spec2Model ----
(***************************************************************************)
(* A model of transh (src/translate.py): the translation cache, the        *)
(* OpenAI-compatible API client with its streaming decoder, translate_text *)
(* and the command line entry point.                                       *)
(*                                                                         *)
(* Conventions.                                                            *)
(*  - A text produced by the API (a translation) is a sequence of tokens;  *)
(*    " " and "\n" are the whitespace tokens.  A source text, a language   *)
(*    name and a command line word are strings; what the code computes     *)
(*    from their characters (md5, len, lower, strip) is tabulated.         *)
(*  - Python's None is the value None below, Some(v) is a value v.         *)
(*  - A function of the program is an operator from its arguments, the     *)
(*    files it reads and the outcome of each system call it makes, to a    *)
(*    record of its result, the files it leaves and what it printed.       *)
(***************************************************************************)
EXTENDS Integers, Sequences, FiniteSets, TLC

VARIABLES
    cache,       \* the files of CACHE_DIR: digest -> file
    configFile,  \* the file CONFIG_FILE
    langFile,    \* the file LANG_FILE
    last,        \* the operation that ran last: arguments, result, output
    lastSave,    \* per text, the most recent save_cache call
    fetched      \* per text, the translation translate_text got from the endpoint

vars == <<cache, configFile, langFile, last, lastSave, fetched>>

\* ------------------------------------------------------------------ bounds
MaxTransLen == 1
MaxLines == 3
MaxUiLen == 5

\* -------------------------------------------------------------- data types
None == [some |-> FALSE, val |-> <<>>]
Some(v) == [some |-> TRUE, val |-> v]

\* Python truthiness of an Optional[str]: None and "" are falsy.
Truthy(o) == o.some /\ o.val # <<>>

Chars == {"a", " "}
Whitespace == {" ", "\n"}

SeqsUpTo(S, n) == UNION {[1..k -> S] : k \in 0..n}

Translations == SeqsUpTo(Chars, MaxTransLen)

LongText == "aaaaaaaaaaaaaaaaaaaaaaaaaaaaaaaaaaaaaaaaaaaaaaaaaaaaaaaaaaaaaaaaaaaaaaaaaaaaaaaaaaaaaaaaaaaaaaaaaaaaaaaaaaaaaaaaaaaaaaaaaaaaaaaaaaaaaaaaaaaaaaaaaaaaaaaaaaaaaaaaaaaaaaaaaaaaaaaaaaaaaaaaaaaaaaaaaaaaaaaaa"

\* What run_command returns for a command that printed nothing.
NoOutputText == "Command exited with code 0 (no output)"

\* What run_command returns when subprocess.run raised.
CommandErrorText == "Error executing command: [Errno 12] Cannot allocate memory"

Texts == {"Hi", LongText}

Langs == {"Chinese", "French"}

\* len(text)
TextLen(text) ==
    CASE text = "Hi" -> 2
      [] text = "ls" -> 2
      [] text = "\n" -> 1
      [] text = LongText -> 201
      [] text = NoOutputText -> 38
      [] text = CommandErrorText -> 58
      [] OTHER -> 0

\* hashlib.md5(text.encode()).hexdigest()
Md5(text) ==
    CASE text = "Hi" -> "c1a5298f939e87e8f962a5edfc206918"
      [] text = "ls" -> "44ba5ca65651b4f36f1927576dd35436"
      [] text = "\n" -> "68b329da9893e34099c7d8ad5cb9c940"
      [] text = LongText -> "15936442c22dab9b685de350bfe75971"
      [] text = NoOutputText -> "c8302488cb9598d7d03cedbb48113e8d"
      [] text = CommandErrorText -> "33d6cd19693e87f619609efb4bf819bb"
      [] OTHER -> "d41d8cd98f00b204e9800998ecf8427e"

AllTexts == {"Hi", "ls", "\n", LongText, NoOutputText, CommandErrorText}
Digests == {Md5(t) : t \in AllTexts}

\* ------------------------------------------------------------- cache layer
SummaryLen == 200

\* text[:200] + ("..." if len(text) > 200 else "")
Summary(text) ==
    [of |-> text,
     upto |-> IF TextLen(text) > SummaryLen THEN SummaryLen ELSE TextLen(text),
     dots |-> TextLen(text) > SummaryLen]

NoSummary == [of |-> "", upto |-> 0, dots |-> FALSE]

\* A file of the cache directory: missing, not a JSON object (a partial
\* write included), or the object save_cache writes.
Absent == [kind |-> "absent", summary |-> NoSummary, target_language |-> "",
           translation |-> <<>>]
Corrupt == [kind |-> "corrupt", summary |-> NoSummary, target_language |-> "",
            translation |-> <<>>]
Entry(s, l, x) == [kind |-> "entry", summary |-> s, target_language |-> l,
                   translation |-> x]

\* What the file system does to one cache access.
\*   "mkdir": CACHE_DIR cannot be created, so no file of it can be opened;
\*   "read":  open or read of the file raises;
\*   "open":  open for writing raises, the file is untouched;
\*   "write": open truncated the file and json.dump or close raised.
LoadFaults == {"none", "mkdir", "read"}
SaveFaults == {"none", "mkdir", "open", "write"}

\* What print wrote: a message of the program, or the text of a str value.
Msg(m) == [k |-> "msg", m |-> m, s |-> <<>>]
Txt(s) == [k |-> "text", m |-> "", s |-> s]

MkdirWarning == Msg("Warning: Failed to create cache directory")

get_cache_path(text, fault) ==
    [path |-> Md5(text),
     out |-> IF fault = "mkdir" THEN <<MkdirWarning>> ELSE <<>>]

\* Mutant: the stored target_language is not compared.
load_cacheAnyLang(c, text, target_lang, fault) ==
    LET p == get_cache_path(text, fault)
        f == c[p.path]
    IN  [ret |-> IF fault = "none" /\ f.kind = "entry"
                 THEN Some(f.translation)
                 ELSE None,
         out |-> p.out]

load_cache(c, text, target_lang, fault) ==
    LET p == get_cache_path(text, fault)
        f == c[p.path]
    IN  [ret |-> IF fault = "none" /\ f.kind = "entry"
                    /\ f.target_language = target_lang
                 THEN Some(f.translation)
                 ELSE None,
         out |-> p.out]

\* Mutant: an existing cache file is kept instead of overwritten.
save_cacheKeepsOld(c, text, translation, target_lang, fault) ==
    LET p == get_cache_path(text, fault)
    IN  [cache |->
            IF fault = "none" /\ c[p.path].kind = "absent"
            THEN [c EXCEPT ![p.path] = Entry(Summary(text), target_lang, translation)]
            ELSE c,
         out |-> p.out]

save_cache(c, text, translation, target_lang, fault) ==
    LET p == get_cache_path(text, fault)
    IN  [cache |->
            CASE fault = "none" ->
                    [c EXCEPT ![p.path] = Entry(Summary(text), target_lang, translation)]
              [] fault = "write" -> [c EXCEPT ![p.path] = Corrupt]
              [] OTHER -> c,
         out |-> p.out]

\* ---------------------------------------------------------- python values
RECURSIVE LStrip(_)
LStrip(s) == IF s # <<>> /\ Head(s) \in Whitespace THEN LStrip(Tail(s)) ELSE s

RECURSIVE RStrip(_)
RStrip(s) ==
    IF s # <<>> /\ s[Len(s)] \in Whitespace
    THEN RStrip(SubSeq(s, 1, Len(s) - 1))
    ELSE s

\* str.strip()
Strip(s) == RStrip(LStrip(s))

\* A parsed JSON document; JInvalid is a text json.loads rejects.
JInvalid == [t |-> "invalid"]
JNull == [t |-> "null"]
JNum == [t |-> "num"]
JTrue == [t |-> "true"]
JStr(s) == [t |-> "str", s |-> s]
JArr(a) == [t |-> "arr", a |-> a]
JObj(o) == [t |-> "obj", o |-> o]

\* The outcome of evaluating an expression: a value, or the exception raised.
Ok(v) == [exc |-> "", v |-> v]
Raise(e) == [exc |-> e, v |-> JNull]

\* v[key] for a str key
GetItem(v, key) ==
    CASE v.t = "obj" -> IF key \in DOMAIN v.o THEN Ok(v.o[key]) ELSE Raise("KeyError")
      [] OTHER -> Raise("TypeError")

\* v[0]
GetIndex0(v) ==
    CASE v.t = "arr" -> IF Len(v.a) > 0 THEN Ok(v.a[1]) ELSE Raise("IndexError")
      [] v.t = "str" -> IF Len(v.s) > 0 THEN Ok(JStr(<<v.s[1]>>)) ELSE Raise("IndexError")
      [] v.t = "obj" -> Raise("KeyError")
      [] OTHER -> Raise("TypeError")

\* v.get(key, default)
DictGet(v, key, default) ==
    CASE v.t = "obj" -> IF key \in DOMAIN v.o THEN Ok(v.o[key]) ELSE Ok(default)
      [] OTHER -> Raise("AttributeError")

\* v.strip()
StrStrip(v) ==
    CASE v.t = "str" -> Ok(JStr(Strip(v.s)))
      [] OTHER -> Raise("AttributeError")

\* len(v)
PyLen(v) ==
    CASE v.t = "arr" -> Ok(Len(v.a))
      [] v.t = "str" -> Ok(Len(v.s))
      [] v.t = "obj" -> Ok(Cardinality(DOMAIN v.o))
      [] OTHER -> Raise("TypeError")

\* bool(v)
PyTruthy(v) ==
    CASE v.t = "null" -> FALSE
      [] v.t = "str" -> v.s # <<>>
      [] v.t = "arr" -> v.a # <<>>
      [] v.t = "obj" -> DOMAIN v.o # {}
      [] OTHER -> TRUE

ChoicesStr == <<"c", "h", "o", "i", "c", "e", "s">>

IsSubstring(needle, hay) ==
    \E i \in 0..(Len(hay) - Len(needle)) :
        SubSeq(hay, i + 1, i + Len(needle)) = needle

\* 'choices' in v
HasChoices(v) ==
    CASE v.t = "obj" -> Ok("choices" \in DOMAIN v.o)
      [] v.t = "arr" -> Ok(\E i \in 1..Len(v.a) :
                              v.a[i].t = "str" /\ v.a[i].s = ChoicesStr)
      [] v.t = "str" -> Ok(IsSubstring(ChoicesStr, v.s))
      [] OTHER -> Raise("TypeError")

\* ---------------------------------------------------------- the API client
ApiKeyError == Msg("Error: API key not configured. Please run: transh -c")
ApiError == Msg("API error")
ParseError == Msg("Failed to parse API response")
Interrupted == Msg("Translation interrupted by user.")
Newline == Msg("\n")
NonStr == Msg("<value>")

\* The lines response.iter_lines() yields.
\*   "blank": an empty line;  "other": a line without the 'data: ' prefix;
\*   "done": 'data: [DONE]';  "data": 'data: ' and a payload;
\*   "neterr": the connection breaks while the line is read;
\*   "badutf8": bytes that line.decode('utf-8') rejects.
Line(k) == [k |-> k, json |-> JNull]
DataLine(v) == [k |-> "data", json |-> v]
Done == Line("done")

\* The endpoint's answer to requests.post.
\*   "neterr": no answer (connection error, timeout);  "http": a non-2xx
\*   status;  "interrupt": Ctrl+C while the call blocks;  "ok": a 2xx answer,
\*   json being what response.json() parses and lines what iter_lines yields.
NetErr == [kind |-> "neterr", json |-> JInvalid, lines |-> <<>>]
HttpErr == [kind |-> "http", json |-> JInvalid, lines |-> <<>>]
Interrupt == [kind |-> "interrupt", json |-> JInvalid, lines |-> <<>>]
JsonBody(v) == [kind |-> "ok", json |-> v, lines |-> <<Line("other")>>]
SseBody(lines) == [kind |-> "ok", json |-> JInvalid, lines |-> lines]

NoFrag == [exc |-> "", out |-> <<>>, add |-> <<>>]
FragFail(e) == [exc |-> e, out |-> <<>>, add |-> <<>>]

\* The body of the loop for one data payload (lines 388-397).
StreamData(data) ==
    IF data.t = "invalid" THEN NoFrag
    ELSE LET has == HasChoices(data) IN
    IF has.exc # "" THEN FragFail(has.exc)
    ELSE IF ~has.v THEN NoFrag
    ELSE LET choices == GetItem(data, "choices") IN
    IF choices.exc # "" THEN FragFail(choices.exc)
    ELSE LET n == PyLen(choices.v) IN
    IF n.exc # "" THEN FragFail(n.exc)
    ELSE IF ~(n.v > 0) THEN NoFrag
    ELSE LET first == GetIndex0(choices.v) IN
    IF first.exc # "" THEN FragFail(first.exc)
    ELSE LET delta == DictGet(first.v, "delta", JObj(<<>>)) IN
    IF delta.exc # "" THEN FragFail(delta.exc)
    ELSE LET content == DictGet(delta.v, "content", JStr(<<>>)) IN
    IF content.exc # "" THEN FragFail(content.exc)
    ELSE IF ~PyTruthy(content.v) THEN NoFrag
    ELSE IF content.v.t = "str"
         THEN [exc |-> "", out |-> <<Txt(content.v.s)>>, add |-> content.v.s]
         ELSE [exc |-> "TypeError", out |-> <<NonStr>>, add |-> <<>>]

\* Mutant: a fragment is put before the text accumulated so far.
RECURSIVE StreamLoopPrepend(_, _, _)
StreamLoopPrepend(lines, full_text, out) ==
    IF lines = <<>> THEN [exc |-> "", text |-> full_text, out |-> out]
    ELSE LET line == Head(lines) IN
    CASE line.k = "neterr" -> [exc |-> "RequestException", text |-> full_text, out |-> out]
      [] line.k = "badutf8" -> [exc |-> "UnicodeDecodeError", text |-> full_text, out |-> out]
      [] line.k = "done" -> [exc |-> "", text |-> full_text, out |-> out]
      [] line.k = "data" ->
            LET d == StreamData(line.json) IN
            IF d.exc # ""
            THEN [exc |-> d.exc, text |-> full_text, out |-> out \o d.out]
            ELSE StreamLoopPrepend(Tail(lines), d.add \o full_text, out \o d.out)
      [] OTHER -> StreamLoopPrepend(Tail(lines), full_text, out)

\* for line in response.iter_lines(): ... (lines 380-397)
RECURSIVE StreamLoop(_, _, _)
StreamLoop(lines, full_text, out) ==
    IF lines = <<>> THEN [exc |-> "", text |-> full_text, out |-> out]
    ELSE LET line == Head(lines) IN
    CASE line.k = "neterr" -> [exc |-> "RequestException", text |-> full_text, out |-> out]
      [] line.k = "badutf8" -> [exc |-> "UnicodeDecodeError", text |-> full_text, out |-> out]
      [] line.k = "done" -> [exc |-> "", text |-> full_text, out |-> out]
      [] line.k = "data" ->
            LET d == StreamData(line.json) IN
            IF d.exc # ""
            THEN [exc |-> d.exc, text |-> full_text, out |-> out \o d.out]
            ELSE StreamLoop(Tail(lines), full_text \o d.add, out \o d.out)
      [] OTHER -> StreamLoop(Tail(lines), full_text, out)

\* data = response.json(); data["choices"][0]["message"]["content"].strip()
\* requests raises its own JSONDecodeError, a RequestException.
NonStreamDecode(body) ==
    IF body.t = "invalid" THEN Raise("RequestException")
    ELSE LET choices == GetItem(body, "choices") IN
    IF choices.exc # "" THEN choices
    ELSE LET first == GetIndex0(choices.v) IN
    IF first.exc # "" THEN first
    ELSE LET message == GetItem(first.v, "message") IN
    IF message.exc # "" THEN message
    ELSE LET content == GetItem(message.v, "content") IN
    IF content.exc # "" THEN content
    ELSE StrStrip(content.v)

\* What a call leaves: it returns ret, raises exc, or ends the process with
\* status code; out is what it printed, net the HTTP requests it made, req
\* the request it sent.
NoRequest == [target_language |-> "", is_json |-> FALSE, stream |-> FALSE, text |-> ""]
Return(ret, out, net, req) ==
    [k |-> "return", ret |-> ret, exc |-> "", code |-> 0, out |-> out,
     net |-> net, req |-> req]
Raised(e, out, net, req) ==
    [k |-> "raise", ret |-> None, exc |-> e, code |-> 1, out |-> out,
     net |-> net, req |-> req]
Exit(code, out, net, req) ==
    [k |-> "exit", ret |-> None, exc |-> "", code |-> code, out |-> out,
     net |-> net, req |-> req]

\* The except clauses of call_ai_api (lines 405-413).
Handle(e, out, req) ==
    CASE e = "RequestException" -> Return(None, out \o <<ApiError>>, 1, req)
      [] e \in {"KeyError", "IndexError", "JSONDecodeError"} ->
            Return(None, out \o <<ParseError>>, 1, req)
      [] OTHER -> Raised(e, out, 1, req)

\* return full_text, after the newline that ends the streamed output
StreamReturn(r, req) ==
    IF r.exc # "" THEN Handle(r.exc, r.out, req)
    ELSE Return(Some(r.text), r.out \o <<Newline>>, 1, req)

\* return data["choices"][0]["message"]["content"].strip()
NonStreamReturn(r, req) ==
    IF r.exc # "" THEN Handle(r.exc, <<>>, req)
    ELSE Return(Some(r.v.s), <<>>, 1, req)

\* The request: the language of the system message, the JSON clause, the
\* stream flag of the payload (lines 358-372).
Request(text, config, is_json, force_no_stream) ==
    [target_language |-> config.target_language, is_json |-> is_json,
     stream |-> config.stream /\ ~is_json /\ ~force_no_stream, text |-> text]

Respond(req, resp) ==
    CASE resp.kind = "interrupt" -> Exit(0, <<Interrupted>>, 1, req)
      [] resp.kind \in {"neterr", "http"} -> Handle("RequestException", <<>>, req)
      [] OTHER ->
            IF req.stream
            THEN StreamReturn(StreamLoop(resp.lines, <<>>, <<>>), req)
            ELSE NonStreamReturn(NonStreamDecode(resp.json), req)

call_ai_api(text, config, is_json, force_no_stream, resp) ==
    IF config.api_key = "" THEN Return(None, <<ApiKeyError>>, 0, NoRequest)
    ELSE Respond(Request(text, config, is_json, force_no_stream), resp)

\* The file CONFIG_FILE: missing, not JSON (a partial write), or the JSON
\* object save_config wrote.
NoConfigFile == [kind |-> "absent", data |-> <<>>]
CorruptConfig == [kind |-> "corrupt", data |-> <<>>]
ConfigFileOf(config) == [kind |-> "config", data |-> config]

\* The file LANG_FILE: missing, or the JSON document save_ui_texts wrote:
\*   "table":    an object whose templates str.format accepts;
\*   "badtable": an object whose "translating" template str.format rejects;
\*   "list":     a JSON value that is not an object.
\* lang is the language the document was translated into.
NoLangFile == [present |-> FALSE, doc |-> "", lang |-> ""]
LangTable(doc, lang) == [present |-> TRUE, doc |-> doc, lang |-> lang]

\* ------------------------------------------------- the cache specification
NoSave == [called |-> FALSE, ok |-> FALSE, lang |-> "", translation |-> <<>>]
NoFetch == [valid |-> FALSE, lang |-> "", translation |-> <<>>]
Idle == [op |-> "none"]

InitFiles ==
    /\ cache = [d \in Digests |-> Absent]
    /\ configFile = NoConfigFile
    /\ langFile = NoLangFile
    /\ last = Idle
    /\ lastSave = [t \in AllTexts |-> NoSave]
    /\ fetched = [t \in AllTexts |-> NoFetch]

SaveCacheOp ==
    \E t \in Texts, x \in Translations, l \in Langs, f \in SaveFaults :
        LET r == save_cache(cache, t, x, l, f)
        IN  /\ cache' = r.cache
            /\ last' = [op |-> "save_cache", text |-> t, fault |-> f,
                        out |-> r.out]
            /\ lastSave' = [lastSave EXCEPT ![t] =
                    IF f = "none"
                    THEN [called |-> TRUE, ok |-> TRUE, lang |-> l,
                          translation |-> x]
                    ELSE [NoSave EXCEPT !.called = TRUE]]
            /\ UNCHANGED <<configFile, langFile, fetched>>

LoadCacheOp ==
    \E t \in Texts, l \in Langs, f \in LoadFaults :
        LET r == load_cache(cache, t, l, f)
        IN  /\ last' = [op |-> "load_cache", text |-> t, lang |-> l,
                        fault |-> f, ret |-> r.ret, out |-> r.out]
            /\ UNCHANGED <<cache, configFile, langFile, lastSave, fetched>>

NextCache == SaveCacheOp \/ LoadCacheOp

SpecCache == InitFiles /\ [][NextCache]_vars

\* C1: read-after-write.  When the most recent save_cache for a text T
\* stored X for language L and completed (no I/O fault), a load_cache(T, L)
\* that can read the file returns exactly X.
C1_ReadAfterWrite ==
    (/\ last.op = "load_cache"
     /\ last.fault = "none"
     /\ lastSave[last.text].ok
     /\ lastSave[last.text].lang = last.lang)
    => last.ret = Some(lastSave[last.text].translation)

C1_Witness ==
    /\ last.op = "load_cache"
    /\ last.fault = "none"
    /\ lastSave[last.text].ok
    /\ lastSave[last.text].lang = last.lang
    /\ last.ret = Some(<<"a">>)
    /\ last.text = LongText

\* C2: language-mismatch invalidation.  load_cache returns a translation
\* only from an entry whose stored target_language is the requested one;
\* after a completed save_cache(T, X, L1), load_cache(T, L2) with L2 # L1
\* returns None, although both languages share the file of md5(T).
C2_LanguageMismatch ==
    last.op = "load_cache" =>
        /\ last.ret.some =>
                /\ cache[Md5(last.text)].kind = "entry"
                /\ cache[Md5(last.text)].target_language = last.lang
        /\ (lastSave[last.text].ok /\ lastSave[last.text].lang # last.lang)
                => last.ret = None

C2_Witness ==
    /\ last.op = "load_cache"
    /\ last.fault = "none"
    /\ lastSave[last.text].ok
    /\ lastSave[last.text].lang = "French"
    /\ last.lang = "Chinese"
    /\ cache[Md5(last.text)].kind = "entry"
    /\ last.ret = None

\* ------------------------------------------------ the API client, explored
DEFAULT_CONFIG ==
    [base_url |-> "https://api.deepseek.com", model |-> "deepseek-chat",
     api_key |-> "", target_language |-> "Chinese", stream |-> TRUE]

ApiConfigs ==
    {[DEFAULT_CONFIG EXCEPT !.api_key = key, !.stream = st, !.target_language = "French"] :
        key \in {"", "sk"}, st \in BOOLEAN}

\* One streamed chunk carrying the content fragment f.
Chunk(f) ==
    JObj([choices |-> JArr(<<JObj([delta |-> JObj([content |-> JStr(f)])])>>)])

\* A complete response whose message content is s.
Completion(s) ==
    JObj([choices |-> JArr(<<JObj([message |-> JObj([content |-> JStr(s)])])>>)])

Fragments == {<<>>, <<"a">>, <<"b">>, <<" ">>}

ChunkLines == {DataLine(Chunk(f)) : f \in Fragments}

StreamLines ==
    ChunkLines \cup
    {Done, Line("blank"), Line("other"), Line("neterr"), Line("badutf8"),
     DataLine(JInvalid), DataLine(JNull),
     DataLine(JObj([choices |-> JArr(<<>>)])),
     DataLine(JObj([choices |-> JObj([a |-> JNull])])),
     DataLine(JObj([choices |-> JArr(<<JObj([delta |-> JNull])>>)])),
     DataLine(JObj([choices |-> JArr(<<JObj([delta |-> JObj([content |-> JNum])])>>)]))}

Bodies ==
    {JInvalid, JNull, JArr(<<>>), JStr(ChoicesStr), JObj(<<>>),
     JObj([choices |-> JNull]), JObj([choices |-> JArr(<<>>)]),
     JObj([choices |-> JObj(<<>>)]), JObj([choices |-> JStr(<<"a">>)]),
     JObj([choices |-> JArr(<<JNull>>)]), JObj([choices |-> JArr(<<JObj(<<>>)>>)]),
     JObj([choices |-> JArr(<<JObj([message |-> JNull])>>)]),
     JObj([choices |-> JArr(<<JObj([message |-> JObj(<<>>)])>>)]),
     JObj([choices |-> JArr(<<JObj([message |-> JObj([content |-> JNull])])>>)]),
     JObj([choices |-> JArr(<<JObj([message |-> JObj([content |-> JNum])])>>)])}
    \cup {Completion(x) : x \in SeqsUpTo({"a", "b", " "}, 2)}

PlainResponses ==
    {NetErr, HttpErr, Interrupt, SseBody(<<DataLine(Chunk(<<"a">>)), Done>>)}
    \cup {JsonBody(v) : v \in Bodies}

StreamResponses == {SseBody(l) : l \in SeqsUpTo(StreamLines, MaxLines)}

\* The arguments of one call and the endpoint's answer to it.
ApiArgs(config, is_json, force_no_stream, resp) ==
    [op |-> "args", text |-> "Hi", config |-> config, is_json |-> is_json,
     force_no_stream |-> force_no_stream, resp |-> resp]

ApiInputs ==
    {ApiArgs(config, is_json, force_no_stream, resp) :
        config \in ApiConfigs, is_json \in BOOLEAN, force_no_stream \in BOOLEAN,
        resp \in PlainResponses}
    \cup
    {ApiArgs([DEFAULT_CONFIG EXCEPT !.api_key = "sk"], FALSE, FALSE, resp) :
        resp \in StreamResponses}

InitApi ==
    /\ cache = [d \in Digests |-> Absent]
    /\ configFile = NoConfigFile
    /\ langFile = NoLangFile
    /\ lastSave = [t \in AllTexts |-> NoSave]
    /\ fetched = [t \in AllTexts |-> NoFetch]
    /\ last \in ApiInputs

CallAiApiOp ==
    /\ last.op = "args"
    /\ last' = [last EXCEPT !.op = "call_ai_api"] @@
               [res |-> call_ai_api(last.text, last.config, last.is_json,
                                    last.force_no_stream, last.resp)]
    /\ UNCHANGED <<cache, configFile, langFile, lastSave, fetched>>

NextApi == CallAiApiOp

SpecApi == InitApi /\ [][NextApi]_vars

UsedStream == last.config.stream /\ ~last.is_json /\ ~last.force_no_stream

\* A JSON object with choices[0].message.content a string.
MessageShape(v) ==
    /\ v.t = "obj" /\ "choices" \in DOMAIN v.o
    /\ v.o.choices.t = "arr" /\ v.o.choices.a # <<>>
    /\ v.o.choices.a[1].t = "obj" /\ "message" \in DOMAIN v.o.choices.a[1].o
    /\ v.o.choices.a[1].o.message.t = "obj"
    /\ "content" \in DOMAIN v.o.choices.a[1].o.message.o
    /\ v.o.choices.a[1].o.message.o.content.t = "str"

\* A JSON object with choices[0].delta an object.
DeltaShape(v) ==
    /\ v.t = "obj" /\ "choices" \in DOMAIN v.o
    /\ v.o.choices.t = "arr" /\ v.o.choices.a # <<>>
    /\ v.o.choices.a[1].t = "obj" /\ "delta" \in DOMAIN v.o.choices.a[1].o
    /\ v.o.choices.a[1].o.delta.t = "obj"

\* The lines before the termination marker.
RECURSIVE UpToDone(_)
UpToDone(lines) ==
    IF lines = <<>> \/ Head(lines).k = "done" THEN <<>>
    ELSE <<Head(lines)>> \o UpToDone(Tail(lines))

C6_FailureCase ==
    \/ last.config.api_key = ""
    \/ last.resp.kind \in {"neterr", "http"}
    \/ last.resp.kind = "ok" /\ ~UsedStream /\ ~MessageShape(last.resp.json)
    \/ /\ last.resp.kind = "ok" /\ UsedStream
       /\ \E i \in 1..Len(UpToDone(last.resp.lines)) :
            \/ last.resp.lines[i].k = "neterr"
            \/ last.resp.lines[i].k = "data" /\ ~DeltaShape(last.resp.lines[i].json)

\* C6: in every failure case (API key missing, the HTTP call fails, the
\* response is not of the expected shape) call_ai_api returns None to its
\* caller: it does not raise, and it makes at most one request.
C6_DefinitiveFailure ==
    (last.op = "call_ai_api" /\ C6_FailureCase)
    => /\ last.res.k = "return"
       /\ last.res.ret = None
       /\ last.res.net <= 1

\* The failure cases in which the code does return None.
C6_ReturnsNoneWhenCaught ==
    (/\ last.op = "call_ai_api"
     /\ \/ last.config.api_key = ""
        \/ last.resp.kind \in {"neterr", "http"}
        \/ last.resp.kind = "ok" /\ ~UsedStream /\ last.resp.json.t = "invalid")
    => last.res.k = "return" /\ last.res.ret = None

\* --- streaming against non-streaming decode
RECURSIVE ConcatFragments(_)
ConcatFragments(lines) ==
    IF lines = <<>> THEN <<>>
    ELSE (CHOOSE f \in Fragments : Head(lines) = DataLine(Chunk(f)))
         \o ConcatFragments(Tail(lines))

RECURSIVE EmittedFragments(_)
EmittedFragments(lines) ==
    IF lines = <<>> THEN <<>>
    ELSE LET f == CHOOSE g \in Fragments : Head(lines) = DataLine(Chunk(g))
         IN  (IF f = <<>> THEN <<>> ELSE <<Txt(f)>>) \o EmittedFragments(Tail(lines))

\* The last call streamed well-formed content chunks and then the marker.
WellFormedStream ==
    /\ last.op = "call_ai_api" /\ last.config.api_key # "" /\ UsedStream
    /\ last.resp.kind = "ok"
    /\ last.resp.lines # <<>>
    /\ last.resp.lines[Len(last.resp.lines)] = Done
    /\ \A i \in 1..(Len(last.resp.lines) - 1) : last.resp.lines[i] \in ChunkLines

StreamedText == ConcatFragments(SubSeq(last.resp.lines, 1, Len(last.resp.lines) - 1))

PlainResult(s) ==
    call_ai_api(last.text, [last.config EXCEPT !.stream = FALSE], FALSE, FALSE,
                JsonBody(Completion(s)))

\* C10 as claimed: the streamed result is the concatenation of the
\* fragments in arrival order, the fragments are what is printed, and the
\* result is identical to the non-streaming result for the same text.
C10_StreamEqualsNonStream ==
    WellFormedStream =>
        /\ last.res.k = "return"
        /\ last.res.ret = Some(StreamedText)
        /\ PlainResult(StreamedText).ret = last.res.ret

\* C10 amended: streaming returns the concatenation of the fragments in
\* arrival order, untrimmed, and prints the non-empty fragments in that
\* order followed by one newline; the non-streaming path returns the same
\* text with surrounding whitespace stripped, so the two results are
\* identical exactly when the concatenation has no surrounding whitespace.
C10_StreamOrderPreserving ==
    WellFormedStream =>
        /\ last.res.k = "return"
        /\ last.res.ret = Some(StreamedText)
        /\ last.res.out =
              EmittedFragments(SubSeq(last.resp.lines, 1, Len(last.resp.lines) - 1))
              \o <<Newline>>
        /\ PlainResult(StreamedText).ret = Some(Strip(StreamedText))
        /\ (PlainResult(StreamedText).ret = last.res.ret)
              <=> (Strip(StreamedText) = StreamedText)

C10_Witness ==
    /\ WellFormedStream
    /\ last.res.ret = Some(<<"a", "b">>)
    /\ PlainResult(<<"a", "b">>).ret = Some(<<"a", "b">>)

\* ------------------------------------------------------------ translate_text
\* A line of the UI table, printed by its key.
Ui(key) == [k |-> "ui", m |-> key, s |-> <<>>]

\* load_ui_texts: UI_TEXTS_EN updated with the document of LANG_FILE; any
\* failure gives the built-in table.
load_ui_texts(lf) ==
    [translating |-> IF lf.present /\ lf.doc = "badtable" THEN "bad" ELSE "ok"]

\* An Optional[str] language argument.
NoLang == [some |-> FALSE, val |-> ""]
SomeLang(l) == [some |-> TRUE, val |-> l]
LangSet(t) == t.some /\ t.val # ""

\* What translate_text leaves: as a call's outcome, with the cache files
\* and the number of load_cache and save_cache calls it made.
Outcome(r, out, c, loads, saves) ==
    [k |-> r.k, ret |-> r.ret, exc |-> r.exc, code |-> r.code, out |-> out,
     net |-> r.net, req |-> r.req, cache |-> c, loads |-> loads, saves |-> saves]

\* target_lang = temp_language if temp_language else config['target_language']
TargetLang(config, temp_language) ==
    IF LangSet(temp_language) THEN temp_language.val ELSE config.target_language

NoLookup == [called |-> 0, ret |-> None, out |-> <<>>]
Looked(r) == [called |-> 1, ret |-> r.ret, out |-> r.out]

\* Mutant: the cache is looked up although use_cache is False.
LookupIgnoresRefresh(c, text, target_lang, use_cache, temp_language, fault) ==
    IF ~LangSet(temp_language)
    THEN Looked(load_cache(c, text, target_lang, fault))
    ELSE NoLookup

\* if use_cache and not temp_language: cached = load_cache(text, target_lang)
Lookup(c, text, target_lang, use_cache, temp_language, fault) ==
    IF use_cache /\ ~LangSet(temp_language)
    THEN Looked(load_cache(c, text, target_lang, fault))
    ELSE NoLookup

Stored(cached, api, saved) ==
    Outcome(api, cached.out \o <<Ui("translating")>> \o api.out \o saved.out,
            saved.cache, cached.called, 1)

NotStored(c, cached, api) ==
    Outcome(api, cached.out \o <<Ui("translating")>> \o api.out, c, cached.called, 0)

\* Mutant: a translation is stored although a temporary language is set.
StoreWithOverride(c, text, target_lang, temp_language, fault, cached, api) ==
    IF api.k = "return" /\ Truthy(api.ret)
    THEN Stored(cached, api, save_cache(c, text, api.ret.val, target_lang, fault))
    ELSE NotStored(c, cached, api)

\* Mutant: the translation obtained from the endpoint is never stored.
StoreNever(c, text, target_lang, temp_language, fault, cached, api) ==
    NotStored(c, cached, api)

\* if translation and not temp_language: save_cache(text, translation,
\* target_lang); return translation
Store(c, text, target_lang, temp_language, fault, cached, api) ==
    IF api.k = "return" /\ Truthy(api.ret) /\ ~LangSet(temp_language)
    THEN Stored(cached, api, save_cache(c, text, api.ret.val, target_lang, fault))
    ELSE NotStored(c, cached, api)

\* The call after the lookup (lines 431-445).
Translate(c, lf, text, config, temp_language, env, target_lang, cached) ==
    IF Truthy(cached.ret)
    THEN Outcome(Return(cached.ret, <<>>, 0, NoRequest),
                 cached.out \o <<Ui("cached"), Txt(cached.ret.val)>>,
                 c, cached.called, 0)
    ELSE IF load_ui_texts(lf).translating = "bad"
    THEN Outcome(Raised("FormatError", <<>>, 0, NoRequest), cached.out,
                 c, cached.called, 0)
    ELSE Store(c, text, target_lang, temp_language, env.save, cached,
               call_ai_api(text, [config EXCEPT !.target_language = target_lang],
                           FALSE, FALSE, env.resp))

\* env: load and save are what the file system does to the cache accesses
\* of this call, resp is the endpoint's answer to its request.
translate_text(c, lf, text, config, use_cache, temp_language, env) ==
    Translate(c, lf, text, config, temp_language, env,
              TargetLang(config, temp_language),
              Lookup(c, text, TargetLang(config, temp_language), use_cache,
                     temp_language, env.load))

\* ------------------------------------------------- translate_text, explored
TranslateConfigs ==
    {[DEFAULT_CONFIG EXCEPT !.api_key = "sk", !.stream = FALSE],
     [DEFAULT_CONFIG EXCEPT !.api_key = "sk", !.target_language = "French"],
     DEFAULT_CONFIG}

TempLanguages == {NoLang, SomeLang(""), SomeLang("Japanese")}

TranslateResponses ==
    {NetErr, Interrupt,
     JsonBody(Completion(<<"a">>)), JsonBody(Completion(<<"b">>)),
     JsonBody(Completion(<<" ">>)),
     JsonBody(JObj([choices |-> JArr(<<JObj([message |-> JObj([content |-> JNull])])>>)])),
     SseBody(<<DataLine(Chunk(<<"b">>)), DataLine(Chunk(<<" ">>)), Done>>)}

\* The outcomes of the cache accesses of one call: of its load, of its save.
CacheFaults ==
    {<<"none", "none">>, <<"mkdir", "mkdir">>, <<"read", "none">>,
     <<"none", "open">>, <<"none", "write">>, <<"read", "write">>}

TranslateEnvs ==
    {[load |-> f[1], save |-> f[2], resp |-> resp] :
        f \in CacheFaults, resp \in TranslateResponses}

TranslateStep(t, config, use_cache, temp_language, env, r) ==
    /\ cache' = r.cache
    /\ last' = [op |-> "translate_text", text |-> t, config |-> config,
                use_cache |-> use_cache, temp_language |-> temp_language,
                env |-> env, res |-> [r EXCEPT !.cache = <<>>],
                before |-> cache, prior |-> fetched[t]]
    /\ fetched' = [fetched EXCEPT ![t] =
            IF /\ r.k = "return" /\ Truthy(r.ret) /\ r.net = 1
               /\ ~LangSet(temp_language) /\ env.save = "none"
            THEN [valid |-> TRUE, lang |-> TargetLang(config, temp_language),
                  translation |-> r.ret.val]
            ELSE IF r.saves = 1 THEN NoFetch ELSE @]
    /\ UNCHANGED <<configFile, langFile, lastSave>>

TranslateTextOp ==
    /\ last = Idle
    /\ \E t \in Texts, config \in TranslateConfigs, use_cache \in BOOLEAN,
          temp_language \in TempLanguages, env \in TranslateEnvs :
        TranslateStep(t, config, use_cache, temp_language, env,
            translate_text(cache, langFile, t, config, use_cache, temp_language, env))

\* The caller has taken the result of the finished call.
Returned ==
    /\ last # Idle
    /\ last' = Idle
    /\ UNCHANGED <<cache, configFile, langFile, lastSave, fetched>>

NextTranslate == TranslateTextOp \/ Returned

SpecTranslate == InitFiles /\ [][NextTranslate]_vars

TranslateCalled == last.op = "translate_text"

\* C3 as claimed: a forced refresh (use_cache = False) neither looks the
\* cache up nor stores into it.
C3_RefreshBypassesCache ==
    (TranslateCalled /\ ~last.use_cache)
    => /\ last.res.loads = 0
       /\ last.res.saves = 0
       /\ cache = last.before

\* C3 amended: a forced refresh never looks the cache up, and it still
\* stores: save_cache is called exactly when the API returned a non-empty
\* translation and no temporary language is set, and only the file of the
\* translated text can change.
C3_RefreshSkipsLookupOnly ==
    (TranslateCalled /\ ~last.use_cache)
    => /\ last.res.loads = 0
       /\ last.res.saves = (IF /\ last.res.k = "return" /\ Truthy(last.res.ret)
                               /\ ~LangSet(last.temp_language)
                            THEN 1 ELSE 0)
       /\ (last.res.saves = 1 /\ last.env.save = "none")
            => cache[Md5(last.text)] =
                  Entry(Summary(last.text), last.config.target_language, last.res.ret.val)
       /\ \A d \in Digests : d # Md5(last.text) => cache[d] = last.before[d]

C3_Witness ==
    /\ TranslateCalled /\ ~last.use_cache
    /\ last.before[Md5(last.text)].kind = "entry"
    /\ last.before[Md5(last.text)].target_language = last.config.target_language
    /\ last.before[Md5(last.text)].translation = <<"a">>
    /\ last.res.ret = Some(<<"b">>)
    /\ cache[Md5(last.text)].translation = <<"b">>

\* C4: with a temporary language set, translate_text calls neither
\* load_cache nor save_cache, whatever use_cache is and however the API
\* call ends, and the cache files are the same before and after.
C4_TempLanguageBypassesCache ==
    (TranslateCalled /\ LangSet(last.temp_language))
    => /\ last.res.loads = 0
       /\ last.res.saves = 0
       /\ cache = last.before
       /\ ~(last.res.k = "return" /\ last.res.net = 0 /\ last.res.ret.some)

C4_Witness ==
    /\ TranslateCalled /\ LangSet(last.temp_language)
    /\ last.use_cache
    /\ last.before[Md5(last.text)].kind = "entry"
    /\ last.res.ret = Some(<<"a">>)
    /\ last.res.req.target_language = "Japanese"

\* C5: once translate_text(T, config) without override has returned a
\* translation X obtained from the endpoint (and the cache file was
\* written), a later translate_text(T, config) for the same target
\* language with caching enabled and no store for T in between, which can
\* read the cache file, returns X without any network call, whatever the
\* endpoint would answer.
C5_CachedReuse ==
    (/\ TranslateCalled /\ last.use_cache /\ ~LangSet(last.temp_language)
     /\ last.env.load = "none"
     /\ last.prior.valid
     /\ last.prior.lang = last.config.target_language)
    => /\ last.res.k = "return"
       /\ last.res.ret = Some(last.prior.translation)
       /\ last.res.net = 0
       /\ last.res.saves = 0

C5_Witness ==
    /\ TranslateCalled /\ last.use_cache /\ ~LangSet(last.temp_language)
    /\ last.env.load = "none"
    /\ last.prior.valid
    /\ last.prior.lang = last.config.target_language
    /\ last.prior.translation = <<"b", " ">>
    /\ last.env.resp = NetErr
    /\ last.res.ret = Some(<<"b", " ">>)

\* The same call with a cache that misses and a file system that works.
Baseline ==
    translate_text(
        IF last.env.load = "none" THEN last.before
        ELSE [last.before EXCEPT ![Md5(last.text)] = Absent],
        langFile, last.text, last.config, last.use_cache, last.temp_language,
        [load |-> "none", save |-> "none", resp |-> last.env.resp])

CacheFault == last.env.load # "none" \/ last.env.save # "none"

\* C9 as claimed: a failure to read, parse or write a cache entry or to
\* create the cache directory does not abort translate_text, does not
\* change its result, and nothing about it is shown to the user.
C9_CacheFailuresRecovered ==
    (TranslateCalled /\ CacheFault)
    => /\ last.res.k = Baseline.k
       /\ last.res.ret = Baseline.ret
       /\ last.res.out = Baseline.out

\* What holds of the code: the result is unchanged, and the only trace of
\* a cache failure in the output is the warning of get_cache_path.
C9_ResultUnchanged ==
    (TranslateCalled /\ CacheFault)
    => /\ last.res.k = Baseline.k
       /\ last.res.ret = Baseline.ret
       /\ last.res.net = Baseline.net
       /\ SelectSeq(last.res.out, LAMBDA o : o # MkdirWarning) = Baseline.out

\* ------------------------------------------------------- configuration files
DEFAULT_KEYS == {"base_url", "model", "api_key", "target_language", "stream"}

ConfigWarning == Msg("Warning: Failed to load config")
ConfigSaveError == Msg("Error: Failed to save config")

\* load_config: the saved object with the missing default keys added.
load_config(cf) ==
    CASE cf.kind = "config" ->
            [some |-> TRUE,
             val |-> [key \in DEFAULT_KEYS |->
                        IF key \in DOMAIN cf.data THEN cf.data[key]
                        ELSE DEFAULT_CONFIG[key]],
             out |-> <<>>]
      [] cf.kind = "corrupt" ->
            [some |-> FALSE, val |-> DEFAULT_CONFIG, out |-> <<ConfigWarning>>]
      [] OTHER -> [some |-> FALSE, val |-> DEFAULT_CONFIG, out |-> <<>>]

\* save_config: ok is FALSE when the write failed and sys.exit(1) follows.
\* fault is "none", "open" (the file is untouched) or "write" (the file was
\* truncated).
save_config(cf, config, fault) ==
    [file |-> CASE fault = "none" -> ConfigFileOf(config)
                [] fault = "write" -> CorruptConfig
                [] OTHER -> cf,
     ok |-> fault = "none",
     out |-> IF fault = "none" THEN <<>> ELSE <<ConfigSaveError>>]

\* save_ui_texts, when LANG_FILE can be written: the file holds the document.
save_ui_texts(lf, doc, lang) == LangTable(doc, lang)

\* str.lower() of a language name
Lower(lang) ==
    CASE lang \in {"English", "ENGLISH", "english"} -> "english"
      [] lang = "French" -> "french"
      [] lang = "Chinese" -> "chinese"
      [] lang = "Japanese" -> "japanese"
      [] OTHER -> lang

\* ---------------------------------------------------- localization bootstrap
\* The text of a JSON document is one token of the response:
\*   "{table}": an object of well-formed templates;  "{badtable}": an object
\*   whose "translating" template str.format rejects;  "{}": the empty
\*   object;  "[1]": a non-empty array.
DocTokens == {"{table}", "{badtable}", "{}", "[1]"}
\* A token that begins with three backquotes: the bare fence and the fence
\* with the language tag.
FenceTokens == {"<fence>", "<fence>json"}

DocKind(token) ==
    CASE token = "{table}" -> "table"
      [] token = "{badtable}" -> "badtable"
      [] token = "{}" -> "empty"
      [] OTHER -> "list"

\* bool(document)
DocTruthy(doc) == doc \in {"table", "badtable", "list"}

\* s.split('\n')
RECURSIVE Split(_, _)
Split(s, line) ==
    IF s = <<>> THEN <<line>>
    ELSE IF Head(s) = "\n" THEN <<line>> \o Split(Tail(s), <<>>)
    ELSE Split(Tail(s), Append(line, Head(s)))

\* '\n'.join(lines)
RECURSIVE Join(_)
Join(lines) ==
    IF lines = <<>> THEN <<>>
    ELSE IF Len(lines) = 1 THEN lines[1]
    ELSE lines[1] \o <<"\n">> \o Join(Tail(lines))

DropFence(clean, lines) ==
    IF Len(lines) > 2 THEN Join(SubSeq(lines, 2, Len(lines) - 1)) ELSE clean

\* Lines 242-245: the markdown code fence is cut off.
FenceStrip(clean) ==
    IF clean # <<>> /\ Head(clean) \in FenceTokens
    THEN DropFence(clean, Split(clean, <<>>))
    ELSE clean

\* json.loads: a document between optional whitespace, or "invalid".
JsonLoadsStripped(t) ==
    IF Len(t) = 1 /\ t[1] \in DocTokens THEN DocKind(t[1]) ELSE "invalid"

JsonLoads(s) == JsonLoadsStripped(Strip(s))

JsonParseError == Msg("JSON parse error")

\* What translate_ui_texts leaves: a call's outcome whose value is doc, the
\* parsed document ("none" for None); parsed is the text that was handed
\* to json.loads, if any was.
UiOutcome(api, doc, out, parsed) ==
    [k |-> api.k, doc |-> doc, exc |-> api.exc, code |-> api.code, out |-> out,
     net |-> api.net, parsed |-> parsed]

UiParsed(api, clean, doc) ==
    IF doc = "invalid"
    THEN UiOutcome(api, "none", api.out \o <<JsonParseError, Txt(api.ret.val)>>,
                   Some(clean))
    ELSE UiOutcome(api, doc, api.out, Some(clean))

UiCleaned(api, clean) == UiParsed(api, clean, JsonLoads(clean))

UiParse(api) ==
    IF api.k = "return" /\ Truthy(api.ret)
    THEN UiCleaned(api, FenceStrip(Strip(api.ret.val)))
    ELSE UiOutcome(api, "none", api.out, None)

translate_ui_texts(config, resp) ==
    UiParse(call_ai_api("UI_TEXTS_EN", config, TRUE, TRUE, resp))

\* ------------------------------------------------------------- the processes
\* What a run of the program leaves: the exit status, the output, the
\* files, how the localization bootstrap ended in it ("none" when it did
\* not run, "ok", "failed" when translate_ui_texts returned nothing,
\* "raised", "exit"), and what was written to the output file of -f.
Proc(code, out, cf, lf, c, loc) ==
    [code |-> code, out |-> out, cfg |-> cf, lang |-> lf, cache |-> c, loc |-> loc,
     written |-> None]

\* signal_handler: Ctrl+C ends the process with status 0.
InterruptedByUser == Msg("Interrupted by user. Exiting gracefully...")

\* The answers typed at the prompts of interactive_config and
\* change_language; interrupt is Ctrl+C at a prompt.
NoInputs ==
    [interrupt |-> FALSE, api_key |-> "", target_lang |-> "", stream_input |-> "",
     new_lang |-> ""]

\* Lines 183-201: an empty answer keeps the value.
Answers(config, inputs) ==
    [config EXCEPT
        !.api_key = IF inputs.api_key # "" THEN inputs.api_key ELSE @,
        !.target_language = IF inputs.target_lang # "" THEN inputs.target_lang ELSE @,
        !.stream = IF inputs.stream_input \in {"y", "n"}
                   THEN inputs.stream_input = "y" ELSE @]

\* Lines 213-216 of interactive_config; nothing is restored on failure.
ConfigLocalized(w, config, out, tr) ==
    CASE tr.k = "raise" -> Proc(1, out \o tr.out, w.cfg, w.lang, w.cache, "raised")
      [] tr.k = "exit" -> Proc(tr.code, out \o tr.out, w.cfg, w.lang, w.cache, "exit")
      [] DocTruthy(tr.doc) ->
            Proc(0, out \o tr.out \o <<Ui("language_changed")>>, w.cfg,
                 save_ui_texts(w.lang, tr.doc, config.target_language), w.cache, "ok")
      [] OTHER -> Proc(0, out \o tr.out, w.cfg, w.lang, w.cache, "failed")

\* Lines 206-222 of interactive_config, then sys.exit(0) of main.
ConfigSaved(w, config, env, out, saved) ==
    IF ~saved.ok
    THEN Proc(1, out \o saved.out, saved.file, w.lang, w.cache, "none")
    ELSE IF Lower(config.target_language) # "english"
    THEN ConfigLocalized([w EXCEPT !.cfg = saved.file], config,
                         out \o <<Msg("Configuration saved!"), Ui("translating_ui")>>,
                         translate_ui_texts(config, env.resp))
    ELSE Proc(0, out \o <<Msg("Configuration saved!")>>, saved.file, NoLangFile,
              w.cache, "none")

\* Lines 177-204 of interactive_config.
ConfigLoaded(w, env, loaded) ==
    IF env.inputs.interrupt
    THEN Proc(0, loaded.out \o <<InterruptedByUser>>, w.cfg, w.lang,
              w.cache, "none")
    ELSE ConfigSaved(w, Answers(loaded.val, env.inputs), env, loaded.out,
                     save_config(w.cfg, Answers(loaded.val, env.inputs), env.cfg[1]))

interactive_config(w, env) == ConfigLoaded(w, env, load_config(w.cfg))

\* Lines 292-296 of change_language: the old language is saved back.
RolledBack(w, out, restored) ==
    IF ~restored.ok
    THEN Proc(1, out \o restored.out, restored.file, w.lang, w.cache, "failed")
    ELSE Proc(0, out \o <<Ui("translation_failed")>>, restored.file, w.lang,
              w.cache, "failed")

\* Lines 288-296 of change_language.
LanguageLocalized(w, config, old_lang, env, out, tr) ==
    CASE tr.k = "raise" -> Proc(1, out \o tr.out, w.cfg, w.lang, w.cache, "raised")
      [] tr.k = "exit" -> Proc(tr.code, out \o tr.out, w.cfg, w.lang, w.cache, "exit")
      [] DocTruthy(tr.doc) ->
            Proc(0, out \o tr.out \o <<Ui("language_changed")>>, w.cfg,
                 save_ui_texts(w.lang, tr.doc, config.target_language), w.cache, "ok")
      [] OTHER ->
            RolledBack(w, out \o tr.out,
                       save_config(w.cfg, [config EXCEPT !.target_language = old_lang],
                                   env.cfg[2]))

\* Lines 283-301 of change_language.
LanguageSaved(w, config, old_lang, env, out, saved) ==
    IF ~saved.ok
    THEN Proc(1, out \o saved.out, saved.file, w.lang, w.cache, "none")
    ELSE IF Lower(config.target_language) # "english"
    THEN LanguageLocalized([w EXCEPT !.cfg = saved.file], config, old_lang, env,
                           out \o <<Ui("translating_ui")>>,
                           translate_ui_texts(config, env.resp))
    ELSE Proc(0, out \o <<Msg("Language changed to English!")>>, saved.file,
              NoLangFile, w.cache, "none")

\* Lines 280-283 of change_language.
LanguageChosen(w, config, new_lang, env, out) ==
    IF new_lang = ""
    THEN Proc(0, out, w.cfg, w.lang, w.cache, "none")
    ELSE LanguageSaved(w, [config EXCEPT !.target_language = new_lang],
                       config.target_language, env, out,
                       save_config(w.cfg, [config EXCEPT !.target_language = new_lang],
                                   env.cfg[1]))

\* Lines 256-278 of change_language, then sys.exit(0) of main.
LanguageLoaded(w, new_lang, env, loaded) ==
    IF ~loaded.some
    THEN Proc(0, loaded.out \o <<Ui("config_missing")>>, w.cfg, w.lang, w.cache, "none")
    ELSE IF LangSet(new_lang)
    THEN LanguageChosen(w, loaded.val, new_lang.val, env, <<>>)
    ELSE IF env.inputs.interrupt
    THEN Proc(0, <<Ui("current_language"), InterruptedByUser>>,
              w.cfg, w.lang, w.cache, "none")
    ELSE LanguageChosen(w, loaded.val, env.inputs.new_lang, env,
                        <<Ui("current_language")>>)

change_language(w, new_lang, env) == LanguageLoaded(w, new_lang, env, load_config(w.cfg))

\* view_config, then sys.exit(0) of main.
ViewLoaded(w, loaded) ==
    IF ~loaded.some
    THEN Proc(0, loaded.out \o <<Ui("config_missing")>>, w.cfg, w.lang, w.cache, "none")
    ELSE Proc(0, <<Msg("=== Current Configuration ===")>>, w.cfg, w.lang, w.cache, "none")

view_config(w) == ViewLoaded(w, load_config(w.cfg))

\* run_command: proc is what subprocess.run gave, the standard output of the
\* command (its standard error is empty) or "<error>" when it raised.
run_command(proc) ==
    CASE proc = "<error>" -> CommandErrorText
      [] proc = "" -> NoOutputText
      [] OTHER -> proc

\* not output.strip()
IsBlank(text) == text \in {"", "\n", " "}

\* ----------------------------------------------------------------------- main
\* sys.argv is a sequence of words, argv[1] being the program's name (the
\* index i of the code is i + 1 here).
Options == {"-h", "--help", "-c", "--vi-env", "-l", "-t", "-f", "-r"}

\* arg.startswith("-")
StartsWithDash(arg) == arg \in Options

\* arg in sys.argv
In(arg, argv) == \E i \in 1..Len(argv) : argv[i] = arg

\* sys.argv.index(arg)
Index(arg, argv) == CHOOSE i \in 1..Len(argv) : argv[i] = arg /\ \A j \in 1..(i - 1) : argv[j] # arg

\* Lines 481-489
has_command(argv) ==
    \E i \in 2..Len(argv) :
        /\ ~(i > 2 /\ argv[i - 1] = "-l")
        /\ ~StartsWithDash(argv[i])
        /\ (i = 2 \/ argv[i - 1] \notin {"-t", "-f", "-l"})

\* Lines 492-498: the language given after -l, if one is.
LanguageArg(argv) ==
    IF Index("-l", argv) + 1 <= Len(argv) /\ ~StartsWithDash(argv[Index("-l", argv) + 1])
    THEN SomeLang(argv[Index("-l", argv) + 1])
    ELSE NoLang

\* Lines 510-514
TempPositions(argv) ==
    {i \in 1..Len(argv) : argv[i] = "-l" /\ i + 1 <= Len(argv) /\ ~StartsWithDash(argv[i + 1])}

temp_language(argv) ==
    IF TempPositions(argv) = {} THEN NoLang
    ELSE SomeLang(argv[(CHOOSE i \in TempPositions(argv) :
                            \A j \in TempPositions(argv) : i <= j) + 1])

show_help == <<Ui("usage"), Ui("options"), Ui("examples")>>

\* Lines 520-524 and 594-597: after translate_text outside a try block.
TextTranslated(w, out, r) ==
    CASE r.k = "raise" -> Proc(1, out \o r.out, w.cfg, w.lang, r.cache, "none")
      [] r.k = "exit" -> Proc(r.code, out \o r.out, w.cfg, w.lang, r.cache, "none")
      [] Truthy(r.ret) -> Proc(0, out \o r.out, w.cfg, w.lang, r.cache, "none")
      [] OTHER -> Proc(1, out \o r.out \o <<Ui("translation_failed")>>, w.cfg, w.lang,
                       r.cache, "none")

\* Lines 541-566: after translate_text inside the try block of -f.
FileTranslated(w, env, r) ==
    CASE r.k = "raise" ->
            Proc(1, r.out \o <<Ui("error")>>, w.cfg, w.lang, r.cache, "none")
      [] r.k = "exit" -> Proc(r.code, r.out, w.cfg, w.lang, r.cache, "none")
      [] Truthy(r.ret) /\ env.outfile = "none" ->
            [Proc(0, r.out \o <<Ui("translation_saved")>>, w.cfg, w.lang, r.cache, "none")
                EXCEPT !.written = r.ret]
      [] Truthy(r.ret) ->
            Proc(1, r.out \o <<Ui("error")>>, w.cfg, w.lang, r.cache, "none")
      [] OTHER -> Proc(1, r.out \o <<Ui("translation_failed")>>, w.cfg, w.lang,
                       r.cache, "none")

\* Lines 528-570: env.infile is "<missing>", "<unreadable>" or the text of
\* the input file.
TranslateFile(argv, w, config, env) ==
    IF Index("-f", argv) + 2 > Len(argv)
    THEN Proc(1, <<Ui("require_files")>>, w.cfg, w.lang, w.cache, "none")
    ELSE IF env.infile = "<missing>"
    THEN Proc(1, <<Ui("file_not_found")>>, w.cfg, w.lang, w.cache, "none")
    ELSE IF env.infile = "<unreadable>"
    THEN Proc(1, <<Ui("error")>>, w.cfg, w.lang, w.cache, "none")
    ELSE FileTranslated(w, env,
            translate_text(w.cache, w.lang, env.infile, config, ~In("-r", argv),
                           temp_language(argv), env))

\* Lines 579-597
CommandRun(argv, w, config, env, output) ==
    IF IsBlank(output)
    THEN Proc(0, <<Ui("executing"), Ui("output_length"), Ui("no_output")>>,
              w.cfg, w.lang, w.cache, "none")
    ELSE TextTranslated(w, <<Ui("executing"), Ui("output_length")>>,
            translate_text(w.cache, w.lang, output, config, ~In("-r", argv),
                           temp_language(argv), env))

\* Lines 516-526
TranslateArg(argv, w, config, env) ==
    IF Index("-t", argv) + 1 > Len(argv)
    THEN Proc(1, <<Ui("require_text")>>, w.cfg, w.lang, w.cache, "none")
    ELSE TextTranslated(w, <<>>,
            translate_text(w.cache, w.lang, argv[Index("-t", argv) + 1], config,
                           ~In("-r", argv), temp_language(argv), env))

\* Lines 500-597
MainLoaded(argv, w, env, loaded) ==
    IF ~loaded.some
    THEN Proc(1, loaded.out \o <<Ui("config_missing")>>, w.cfg, w.lang, w.cache, "none")
    ELSE IF In("-t", argv) THEN TranslateArg(argv, w, loaded.val, env)
    ELSE IF In("-f", argv) THEN TranslateFile(argv, w, loaded.val, env)
    ELSE IF StartsWithDash(argv[Len(argv)])
    THEN Proc(1, <<Ui("no_command")>> \o show_help, w.cfg, w.lang, w.cache, "none")
    ELSE CommandRun(argv, w, loaded.val, env, run_command(env.proc))

main(argv, w, env) ==
    IF Len(argv) < 2 \/ In("-h", argv) \/ In("--help", argv)
    THEN Proc(0, show_help, w.cfg, w.lang, w.cache, "none")
    ELSE IF In("-c", argv) THEN interactive_config(w, env)
    ELSE IF In("--vi-env", argv) THEN view_config(w)
    ELSE IF In("-l", argv) /\ ~In("-t", argv) /\ ~In("-f", argv) /\ ~has_command(argv)
    THEN change_language(w, LanguageArg(argv), env)
    ELSE MainLoaded(argv, w, env, load_config(w.cfg))

\* ------------------------------------------------------------ main, explored
Argv(words) == <<"transh">> \o words

Argvs ==
    {Argv(<<>>), Argv(<<"-h">>), Argv(<<"-c">>), Argv(<<"--vi-env">>),
     Argv(<<"-l">>), Argv(<<"-l", "French">>), Argv(<<"-l", "English">>),
     Argv(<<"-t", "Hi">>), Argv(<<"-t">>), Argv(<<"-r", "-t", "Hi">>),
     Argv(<<"-t", "Hi", "-l", "Japanese">>),
     Argv(<<"-f", "out.txt", "in.txt">>), Argv(<<"-f", "out.txt">>),
     Argv(<<"ls">>), Argv(<<"-r">>), Argv(<<"-r", "ls">>),
     Argv(<<"-l", "French", "ls">>)}

NullContent ==
    JsonBody(JObj([choices |-> JArr(<<JObj([message |-> JObj([content |-> JNull])])>>)]))

\* The endpoint's answers to the localization request.
UiResponses ==
    {NetErr, Interrupt, NullContent,
     JsonBody(Completion(<<"{table}">>)),
     JsonBody(Completion(<<"<fence>json", "\n", "{table}", "\n", "<fence>">>)),
     JsonBody(Completion(<<"{badtable}">>)),
     JsonBody(Completion(<<"[1]">>)),
     JsonBody(Completion(<<"{}">>)),
     JsonBody(Completion(<<"a", " ", "{table}">>))}

\* The endpoint's answers to a translation request.
TextResponses ==
    {NetErr, Interrupt, NullContent, JsonBody(Completion(<<"a">>)),
     SseBody(<<DataLine(Chunk(<<"a">>)), Done>>)}

ConfigInputs ==
    {[NoInputs EXCEPT !.interrupt = TRUE]} \cup
    {[NoInputs EXCEPT !.api_key = key, !.target_lang = l, !.stream_input = st] :
        key \in {"", "sk"}, l \in {"", "French", "English"}, st \in {"", "n"}}

LanguageInputs ==
    {[NoInputs EXCEPT !.interrupt = TRUE]} \cup
    {[NoInputs EXCEPT !.new_lang = l] : l \in {"", "French", "English"}}

\* The outcomes of the two writes of CONFIG_FILE a run can make.
ConfigFaults == {<<"open", "none">>, <<"write", "none">>, <<"none", "open">>}

QuietEnv ==
    [inputs |-> NoInputs, cfg |-> <<"none", "none">>, resp |-> NetErr,
     load |-> "none", save |-> "none", infile |-> "Hi", outfile |-> "none",
     proc |-> "Hi"]

\* What the outside world can do to a run with the arguments argv: only
\* what that run looks at varies, and a write of CONFIG_FILE fails only in
\* runs whose other inputs are the plain ones.
MainEnvs(argv) ==
    CASE Len(argv) < 2 \/ In("-h", argv) \/ In("--vi-env", argv) -> {QuietEnv}
      [] In("-c", argv) ->
            {[QuietEnv EXCEPT !.inputs = i, !.resp = resp] :
                i \in ConfigInputs, resp \in UiResponses}
            \cup {[QuietEnv EXCEPT !.cfg = f] : f \in ConfigFaults}
      [] argv = Argv(<<"-l">>) ->
            {[QuietEnv EXCEPT !.inputs = i, !.resp = resp] :
                i \in LanguageInputs, resp \in UiResponses}
            \cup {[QuietEnv EXCEPT !.inputs = [NoInputs EXCEPT !.new_lang = "French"],
                                   !.cfg = f] : f \in ConfigFaults}
      [] In("-l", argv) /\ ~In("-t", argv) /\ ~has_command(argv) ->
            {[QuietEnv EXCEPT !.resp = resp] : resp \in UiResponses}
            \cup {[QuietEnv EXCEPT !.cfg = f] : f \in ConfigFaults}
      [] In("-f", argv) ->
            {[QuietEnv EXCEPT !.resp = resp] : resp \in TextResponses}
            \cup {[QuietEnv EXCEPT !.infile = i] : i \in {"<missing>", "<unreadable>"}}
            \cup {[QuietEnv EXCEPT !.resp = JsonBody(Completion(<<"a">>)),
                                   !.outfile = "open"]}
      [] In("-t", argv) -> {[QuietEnv EXCEPT !.resp = resp] : resp \in TextResponses}
      [] OTHER ->
            {[QuietEnv EXCEPT !.resp = resp, !.proc = o] :
                resp \in TextResponses, o \in {"Hi", "\n", ""}}
            \cup {[QuietEnv EXCEPT !.proc = "<error>"]}

MainStep(argv, env, r) ==
    /\ cache' = r.cache
    /\ configFile' = r.cfg
    /\ langFile' = r.lang
    /\ last' = [op |-> "main", argv |-> argv, env |-> env, code |-> r.code,
                out |-> r.out, loc |-> r.loc, written |-> r.written,
                before |-> [cfg |-> configFile, lang |-> langFile]]
    /\ UNCHANGED <<lastSave, fetched>>

\* One run of the program.
MainOp ==
    /\ last = Idle
    /\ \E argv \in Argvs : \E env \in MainEnvs(argv) :
        MainStep(argv, env,
                 main(argv, [cfg |-> configFile, lang |-> langFile, cache |-> cache], env))

NextCli == MainOp \/ Returned

SpecCli == InitFiles /\ [][NextCli]_vars

MainRan == last.op = "main"

Printed(m) == \E i \in 1..Len(last.out) : last.out[i] = m

\* C7: whenever translate_ui_texts fails during a language change made by
\* change_language or interactive_config on an existing configuration, the
\* target_language of the configuration file and the localization file
\* after the run are those from before the run.
C7_FailedLocalizationKeepsLanguage ==
    (MainRan /\ last.loc = "failed" /\ last.before.cfg.kind = "config")
        => /\ configFile.kind = "config"
           /\ configFile.data.target_language = last.before.cfg.data.target_language
           /\ langFile = last.before.lang

\* The messages of the failures: translation failure, missing
\* configuration, missing API key, a missing required argument, an input
\* file not found.
FailureMessages ==
    {Ui("translation_failed"), Ui("config_missing"), ApiKeyError, Ui("require_text"),
     Ui("require_files"), Ui("no_command"), Ui("file_not_found")}

\* C8: every run of main that printed the message of a translation
\* failure, a missing configuration, a missing API key, a missing required
\* argument or an input file not found ended with a non-zero exit status.
C8_FailureExitsNonZero ==
    (MainRan /\ \E m \in FailureMessages : Printed(m)) => last.code # 0

\* ------------------------------------------- malformed lines in the stream
\* A data line whose payload is a content chunk of the expected shape.
ValidLine(line) == line \in ChunkLines

\* Any other data line.
MalformedLine(line) == line.k = "data" /\ ~ValidLine(line)

\* The concatenation of the fragments of the valid data lines.
RECURSIVE ValidText(_)
ValidText(lines) ==
    IF lines = <<>> THEN <<>>
    ELSE (IF ValidLine(Head(lines))
          THEN CHOOSE f \in Fragments : Head(lines) = DataLine(Chunk(f))
          ELSE <<>>)
         \o ValidText(Tail(lines))

\* The last call streamed lines that could all be read and decoded as
\* text, a malformed data line among those before the termination marker.
MalformedStream ==
    /\ last.op = "call_ai_api" /\ last.config.api_key # "" /\ UsedStream
    /\ last.resp.kind = "ok"
    /\ \A i \in 1..Len(UpToDone(last.resp.lines)) :
            last.resp.lines[i].k \in {"data", "blank", "other"}
    /\ \E i \in 1..Len(UpToDone(last.resp.lines)) : MalformedLine(last.resp.lines[i])

\* C11: a malformed data line (any data line that is not a JSON object of
\* the choices/delta shape) adds nothing to the text and neither ends nor
\* aborts the stream: the call returns the concatenation of the fragments
\* of the valid data lines before the termination marker.
C11_MalformedLinesSkipped ==
    MalformedStream =>
        /\ last.res.k = "return"
        /\ last.res.ret = Some(ValidText(UpToDone(last.resp.lines)))

\* What the code does skip: the data lines that are not JSON at all.
C11_InvalidJsonSkipped ==
    (/\ MalformedStream
     /\ \A i \in 1..Len(UpToDone(last.resp.lines)) :
            MalformedLine(last.resp.lines[i]) => last.resp.lines[i] = DataLine(JInvalid))
    => /\ last.res.k = "return"
       /\ last.res.ret = Some(ValidText(UpToDone(last.resp.lines)))

\* ------------------------------------------- translate_ui_texts, explored
UiTokens == {"<fence>", "<fence>json", "\n", " ", "{table}", "a"}

\* The configuration of one localization call and the content of the
\* endpoint's answer to it.
UiInputs ==
    {[op |-> "ui_args", config |-> [DEFAULT_CONFIG EXCEPT !.api_key = "sk"],
      content |-> c] : c \in SeqsUpTo(UiTokens, MaxUiLen)}

InitUi ==
    /\ cache = [d \in Digests |-> Absent]
    /\ configFile = NoConfigFile
    /\ langFile = NoLangFile
    /\ lastSave = [t \in AllTexts |-> NoSave]
    /\ fetched = [t \in AllTexts |-> NoFetch]
    /\ last \in UiInputs

TranslateUiTextsOp ==
    /\ last.op = "ui_args"
    /\ last' = [op |-> "translate_ui_texts", config |-> last.config,
                content |-> last.content,
                res |-> translate_ui_texts(last.config,
                                           JsonBody(Completion(last.content)))]
    /\ UNCHANGED <<cache, configFile, langFile, lastSave, fetched>>

NextUi == TranslateUiTextsOp

SpecUi == InitUi /\ [][NextUi]_vars

\* A line that begins with the fence marker.
IsFenceLine(line) == line # <<>> /\ Head(line) \in FenceTokens

\* The response is wrapped in a code fence: a fence line, at least one
\* line, a fence line.
Wrapped(lines) ==
    Len(lines) >= 3 /\ IsFenceLine(lines[1]) /\ IsFenceLine(lines[Len(lines)])

\* The text the claim has parsed: the lines between the two fence lines of
\* a wrapped response, any other response as it is.
Unfenced(text, lines) ==
    IF Wrapped(lines) THEN Join(SubSeq(lines, 2, Len(lines) - 1)) ELSE text

UiParsedSomething == last.op = "translate_ui_texts" /\ last.res.parsed.some

\* C12: of a response wrapped in a code fence exactly the leading and the
\* trailing fence line are removed before json.loads, and no line that is
\* not a fence line is removed; any other response (one with a leading
\* fence and no closing fence, one of fewer than 3 lines) is parsed as it
\* is, surrounding whitespace aside.
C12_OnlyFenceLinesRemoved ==
    UiParsedSomething =>
        last.res.parsed.val = Unfenced(Strip(last.content), Split(Strip(last.content), <<>>))

\* What holds of the code: a response wrapped in a code fence loses its
\* two fence lines, and a response that does not begin with the fence
\* marker, or has fewer than 3 lines, is parsed as it is.
C12_WrappedOrUnfenced ==
    (/\ UiParsedSomething
     /\ \/ Wrapped(Split(Strip(last.content), <<>>))
        \/ ~IsFenceLine(Strip(last.content))
        \/ Len(Split(Strip(last.content), <<>>)) < 3)
    => last.res.parsed.val =
            Unfenced(Strip(last.content), Split(Strip(last.content), <<>>))

====
